---- MODULE Spec2Model ----
(***************************************************************************)
(* Model of scripts/OneWebWKPrep.py: a command-line pipeline that ingests  *)
(* JSON exports into a search index, uploads source files to blob storage  *)
(* and removes previously indexed content.  Strings are sequences of       *)
(* one-character strings so that path, regex and id manipulation is        *)
(* computed character by character, as the script does.                    *)
(***************************************************************************)
EXTENDS Integers, Sequences, FiniteSets, TLC

VARIABLES
  args,          \* parsed command line (line 41); args.files is glob.glob(args.files)
  pc,            \* position of the script
  exitCode,      \* "running", 0, or 1
  default_creds, search_creds, storage_creds, formrecognizer_creds,
  containerExists, blobs,      \* storage backend: container and blob names
  indexExists, index,          \* search backend: index schema present, documents
  lagging, staleDocs,          \* queries may still see staleDocs, the documents of
                               \* before the deletes that the index has not reflected
  fileIdx,       \* position in "for filename in glob.glob(args.files)"
  content_map,   \* result of get_document_text
  i, batch,      \* locals of index_content
  rfiFile, r, rounds, total0, stalePolls,  \* remove_from_index: argument, last query, history
  calls,         \* functions invoked in this run, in order
  backendCalls,  \* number of storage/search requests issued in this run
  uploads,       \* upload_documents calls of the current index_content call
  ingested,      \* file name -> documents accepted by the index from that file
  uploaded,      \* file name -> blob names uploaded for that file
  run            \* number of the current invocation

vars == <<args, pc, exitCode, default_creds, search_creds, storage_creds,
          formrecognizer_creds, containerExists, blobs, indexExists, index,
          lagging, staleDocs, fileIdx, content_map, i, batch, rfiFile, r,
          rounds, total0, stalePolls, calls, backendCalls, uploads, ingested,
          uploaded, run>>

----------------------------------------------------------------------------
(* Bounds *)
MaxRuns == 2        \* invocations of the script against the same backends
MaxStale == 1       \* polls per remove_from_index call that may see the old view
MaxBatches == 2     \* full batches in the longest bulk stream

(* Program constants *)
BatchSize == 1000   \* "if i % 1000 == 0"
Top == 1000         \* search(..., top=1000)

None == <<"<None>">>
Undefined == <<"<undefined>">>
Azd == <<"<AzureDeveloperCliCredential>">>

----------------------------------------------------------------------------
(* Strings *)
Digits == <<"0", "1", "2", "3", "4", "5", "6", "7", "8", "9">>
DigitSet == {Digits[k] : k \in 1..10}

RECURSIVE ToStr(_)
ToStr(n) == IF n < 10 THEN <<Digits[n + 1]>>
            ELSE Append(ToStr(n \div 10), Digits[(n % 10) + 1])

RFind(s, c) == LET hits == {k \in 1..Len(s) : s[k] = c}
               IN IF hits = {} THEN 0 ELSE CHOOSE k \in hits : \A m \in hits : m <= k

Lower(s) == [k \in 1..Len(s) |->
               CASE s[k] = "P" -> "p"
                 [] s[k] = "D" -> "d"
                 [] s[k] = "F" -> "f"
                 [] OTHER -> s[k]]

basename(p) == SubSeq(p, RFind(p, "/") + 1, Len(p))

\* index of the dot that starts the extension, 0 when there is none
ExtDot(p) == LET sepIndex == RFind(p, "/")
                 dotIndex == RFind(p, ".")
             IN IF dotIndex > sepIndex
                   /\ \E k \in (sepIndex + 1)..(dotIndex - 1) : p[k] # "."
                THEN dotIndex ELSE 0

splitext(p) == IF ExtDot(p) = 0 THEN <<p, <<>>>>
               ELSE <<SubSeq(p, 1, ExtDot(p) - 1), SubSeq(p, ExtDot(p), Len(p))>>

PdfExt == <<".", "p", "d", "f">>
IsPdfName(filename) == Lower(splitext(filename)[2]) = PdfExt

blob_name_from_file_page(filename, page) ==
  IF IsPdfName(filename)
  THEN splitext(basename(filename))[1] \o <<"-">> \o ToStr(page) \o PdfExt
  ELSE basename(filename)

StartsWith(s, p) == Len(s) >= Len(p) /\ SubSeq(s, 1, Len(p)) = p

\* re.match(f"{prefix}-\d+\.pdf", b): anchored at the start only; the prefix is
\* interpolated unescaped, so a "." in it matches any character
ReMatch(prefix, b) ==
  LET p == Len(prefix) IN
  /\ Len(b) >= p + 6
  /\ \A k \in 1..p : prefix[k] = "." \/ prefix[k] = b[k]
  /\ b[p + 1] = "-"
  /\ \E n \in 1..(Len(b) - p - 5) :
        /\ \A k \in (p + 2)..(p + 1 + n) : b[k] \in DigitSet
        /\ SubSeq(b, p + 2 + n, p + 5 + n) = PdfExt

\* re.sub("[/:.]", "=", url)
SanitizeId(url) == [k \in 1..Len(url) |-> IF url[k] \in {"/", ":", "."} THEN "=" ELSE url[k]]

\* The host prefix is kept as one token: it is only ever concatenated and
\* compared whole, and no file basename can equal a string that contains it
ONE_WEB_URL == <<"https://www.wolterskluwer.com">>

Min(a, b) == IF a < b THEN a ELSE b
CeilDiv(n, d) == (n + d - 1) \div d
Range(s) == {s[k] : k \in DOMAIN s}

----------------------------------------------------------------------------
(* Input files.  kind is what the bytes of the file are; pages and results  *)
(* are what PdfReader and json.loads find in it.                            *)
FileJson == [name |-> <<"d", "/", "a", ".", "j", "s", "o", "n">>, kind |-> "json", pages |-> 0,
             results |-> << <<"/", "a", ".", "b">>, <<"/", "a", "/", "b">>, <<"/", "c">> >>]
FilePdf == [name |-> <<"a", ".", "p", "d", "f">>, kind |-> "pdf", pages |-> 2,
            results |-> <<>>]

BulkLengths == {0, 1, BatchSize - 1, BatchSize, BatchSize + 1,
                MaxBatches * BatchSize, MaxBatches * BatchSize + 1}
BulkFile(L) == [name |-> <<"n">> \o ToStr(L) \o <<".", "j", "s", "o", "n">>,
                kind |-> "json", pages |-> 0,
                results |-> [k \in 1..L |-> <<"/">> \o ToStr(k)]]

AllFiles == {FileJson, FilePdf} \cup {BulkFile(L) : L \in BulkLengths}
ReadFile(filename) == CHOOSE f \in AllFiles : f.name = filename

Globs == {<<>>, <<FileJson.name>>, <<FilePdf.name>>,
          <<FileJson.name, FilePdf.name>>, <<FilePdf.name, FileJson.name>>}
BulkGlobs == {<<BulkFile(L).name>> : L \in BulkLengths}

Key(k) == <<"key-" \o k>>
Keys(k) == {None, Key(k)}
AzureKeyCredential(k) == <<"AzureKeyCredential">> \o k

ArgSpace == [files : Globs, skipblobs : BOOLEAN, remove : BOOLEAN, removeall : BOOLEAN,
             localpdfparser : BOOLEAN, formrecognizerservice : {None, <<"fr">>},
             searchkey : Keys("search"), storagekey : Keys("storage"),
             formrecognizerkey : Keys("fr")]

\* Bulk runs: an ingest of one long export, then a removal from the same index
BulkArgSpace == [files : BulkGlobs, skipblobs : {FALSE}, remove : BOOLEAN, removeall : BOOLEAN,
                 localpdfparser : {TRUE}, formrecognizerservice : {None},
                 searchkey : {None}, storagekey : {None}, formrecognizerkey : {None}]

----------------------------------------------------------------------------
(* Lines 43-54: credentials and the configuration check *)
DefaultCreds(a) == IF a.searchkey = None \/ a.storagekey = None THEN Azd ELSE None
SearchCreds(a) == IF a.searchkey = None THEN DefaultCreds(a) ELSE AzureKeyCredential(a.searchkey)
StorageCreds(a) == IF ~a.skipblobs
                   THEN (IF a.storagekey = None THEN DefaultCreds(a) ELSE a.storagekey)
                   ELSE Undefined
FormRecognizerCreds(a) == IF a.formrecognizerkey = None THEN DefaultCreds(a)
                          ELSE AzureKeyCredential(a.formrecognizerkey)

ConfigError_removeall(a) == ~a.localpdfparser /\ a.formrecognizerservice = None /\ ~a.removeall
ConfigError(a) == ~a.localpdfparser /\ a.formrecognizerservice = None

Crash == /\ pc' = "crashed"
         /\ exitCode' = 1

ArgumentResolution ==
  /\ pc = "start"
  /\ default_creds' = DefaultCreds(args)
  /\ search_creds' = SearchCreds(args)
  /\ storage_creds' = StorageCreds(args)
  /\ IF ~args.localpdfparser
     THEN IF ConfigError(args)
          THEN /\ pc' = "exited"
               /\ exitCode' = 1
               /\ UNCHANGED formrecognizer_creds
          ELSE /\ formrecognizer_creds' = FormRecognizerCreds(args)
               /\ pc' = "main"
               /\ UNCHANGED exitCode
     ELSE /\ pc' = "main"
          /\ UNCHANGED <<formrecognizer_creds, exitCode>>
  /\ UNCHANGED <<args, containerExists, blobs, indexExists, index, lagging, staleDocs, fileIdx,
                 content_map, i, batch, rfiFile, r, rounds, total0, stalePolls, calls,
                 backendCalls, uploads, ingested, uploaded, run>>

----------------------------------------------------------------------------
(* Storage backend and lines 62-98 *)
PageBlobs(f) == IF IsPdfName(f.name)
                THEN {blob_name_from_file_page(f.name, page) : page \in 0..(f.pages - 1)}
                ELSE {blob_name_from_file_page(f.name, 0)}

\* list_blob_names(name_starts_with=...) filtered by the regular expression
BlobsToRemove(filename, names) ==
  IF filename = None THEN names
  ELSE LET prefix == splitext(basename(filename))[1]
       IN {b \in names : /\ StartsWith(b, splitext(basename(prefix))[1])
                          /\ ReMatch(prefix, b)}

\* remove_blobs; next is where the caller goes on, which in both callers is the
\* entry of remove_from_index with the same argument (its locals start here)
remove_blobs(filename, next) ==
  /\ calls' = Append(calls, <<"remove_blobs", filename>>)
  /\ IF storage_creds = Undefined
     THEN /\ Crash      \* NameError at line 88
          /\ UNCHANGED <<blobs, backendCalls, rfiFile, r, rounds, total0, stalePolls>>
     ELSE /\ blobs' = IF containerExists THEN blobs \ BlobsToRemove(filename, blobs) ELSE blobs
          /\ backendCalls' = backendCalls + 1
                 + (IF containerExists
                    THEN 1 + Cardinality(BlobsToRemove(filename, blobs)) ELSE 0)
          /\ pc' = next
          /\ rfiFile' = filename
          /\ r' = [count |-> 0, hits |-> <<>>]
          /\ rounds' = 0
          /\ total0' = -1
          /\ stalePolls' = 0
          /\ UNCHANGED exitCode

\* lines 230-231 (the call of remove_from_index at 232 starts at "rfi_poll")
RemoveAllBlobs ==
  /\ pc = "main"
  /\ args.removeall
  /\ remove_blobs(None, "rfi_poll")
  /\ UNCHANGED <<args, default_creds, search_creds, storage_creds, formrecognizer_creds,
                 containerExists, indexExists, index, lagging, staleDocs, fileIdx, content_map, i,
                 batch, uploads, ingested, uploaded, run>>

\* lines 238-241
RemoveFileBlobs ==
  /\ pc = "loop"
  /\ fileIdx <= Len(args.files)
  /\ args.remove
  /\ remove_blobs(args.files[fileIdx], "rfi_poll")
  /\ UNCHANGED <<args, default_creds, search_creds, storage_creds, formrecognizer_creds,
                 containerExists, indexExists, index, lagging, staleDocs, fileIdx, content_map, i,
                 batch, uploads, ingested, uploaded, run>>

\* lines 246-248; PdfReader raises on bytes that are not a PDF
UploadBlobs ==
  /\ pc = "loop"
  /\ fileIdx <= Len(args.files)
  /\ ~args.remove
  /\ LET f == ReadFile(args.files[fileIdx]) IN
     IF args.skipblobs
     THEN /\ pc' = "extract"
          /\ UNCHANGED <<exitCode, containerExists, blobs, backendCalls, calls, uploaded>>
     ELSE /\ calls' = Append(calls, <<"upload_blobs", f.name>>)
          /\ containerExists' = TRUE
          /\ IF IsPdfName(f.name) /\ f.kind # "pdf"
             THEN /\ Crash
                  /\ backendCalls' = backendCalls + 1 + (IF containerExists THEN 0 ELSE 1)
                  /\ UNCHANGED <<blobs, uploaded>>
             ELSE /\ blobs' = blobs \cup PageBlobs(f)
                  /\ uploaded' = [uploaded EXCEPT ![f.name] = @ \cup PageBlobs(f)]
                  /\ backendCalls' = backendCalls + 1 + (IF containerExists THEN 0 ELSE 1)
                                        + Cardinality(PageBlobs(f))
                  /\ pc' = "extract"
                  /\ UNCHANGED exitCode
  /\ UNCHANGED <<args, default_creds, search_creds, storage_creds, formrecognizer_creds,
                 indexExists, index, lagging, staleDocs, fileIdx, content_map, i, batch, rfiFile, r,
                 rounds, total0, stalePolls, uploads, ingested, run>>

----------------------------------------------------------------------------
(* Search backend *)

\* upload_documents replaces the document that has the same key, else adds it
LastWins(docs) ==
  IF Cardinality({docs[k].id : k \in DOMAIN docs}) = Len(docs) THEN docs
  ELSE LET keep == {k \in DOMAIN docs : \A m \in (k + 1)..Len(docs) : docs[m].id # docs[k].id}
       IN [j \in 1..Cardinality(keep) |->
             docs[CHOOSE k \in keep : Cardinality({m \in keep : m <= k}) = j]]

UploadDocuments(idx, accepted) ==
  LET newIds == {accepted[k].id : k \in DOMAIN accepted}
  IN SelectSeq(idx, LAMBDA d : d.id \notin newIds) \o LastWins(accepted)

\* the documents a backend may accept out of a batch of n, as <<first, last>>:
\* all of them, all but the last, or none
AcceptChoices(n) == {<<1, n>>, <<1, n - 1>>, <<1, 0>>}

DeleteDocuments(idx, ids) == LET gone == Range(ids)
                             IN SelectSeq(idx, LAMBDA d : d.id \notin gone)

\* filter = None, or sourcefile eq '<basename>'
Matches(d, filename) == filename = None \/ d.sourcefile = basename(filename)

SearchHits_short(matches) == SubSeq(matches, 1, Min(Top - 1, Len(matches)))
SearchHits(matches) == SubSeq(matches, 1, Min(Top, Len(matches)))

Search(view, filename) ==
  LET matches == SelectSeq(view, LAMBDA d : Matches(d, filename))
  IN [count |-> Len(matches),
      hits |-> [k \in DOMAIN SearchHits(matches) |-> SearchHits(matches)[k].id]]

----------------------------------------------------------------------------
(* Lines 151-178 and 234-237 *)
EnsureIndex ==
  /\ pc = "main"
  /\ ~args.removeall
  /\ IF ~args.remove
     THEN /\ calls' = Append(calls, <<"create_search_index", None>>)
          /\ indexExists' = TRUE
          /\ backendCalls' = backendCalls + 1 + (IF indexExists THEN 0 ELSE 1)
     ELSE UNCHANGED <<calls, indexExists, backendCalls>>
  /\ pc' = "loop"
  /\ fileIdx' = 1
  /\ UNCHANGED <<args, exitCode, default_creds, search_creds, storage_creds,
                 formrecognizer_creds, containerExists, blobs, index, lagging, staleDocs, content_map,
                 i, batch, rfiFile, r, rounds, total0, stalePolls, uploads, ingested,
                 uploaded, run>>

\* the glob is exhausted: the script ends
Finish ==
  /\ pc = "loop"
  /\ fileIdx > Len(args.files)
  /\ pc' = "done"
  /\ exitCode' = 0
  /\ UNCHANGED <<args, default_creds, search_creds, storage_creds, formrecognizer_creds,
                 containerExists, blobs, indexExists, index, lagging, staleDocs, fileIdx, content_map,
                 i, batch, rfiFile, r, rounds, total0, stalePolls, calls, backendCalls,
                 uploads, ingested, uploaded, run>>

----------------------------------------------------------------------------
(* Lines 133-149, 180-191 and 249-250.  Only the fields that the index keys *)
(* or filters on are carried: url, and id and sourcefile.                   *)
get_document_text(f) == [k \in DOMAIN f.results |-> [url |-> f.results[k]]]

\* the k-th document that the generator yields
create_sections(cm, k) == [id |-> SanitizeId(cm[k].url),
                           sourcefile |-> ONE_WEB_URL \o cm[k].url]

GetDocumentText ==
  /\ pc = "extract"
  /\ LET f == ReadFile(args.files[fileIdx]) IN
     IF f.kind # "json"
     THEN /\ Crash      \* json.loads raises
          /\ calls' = Append(calls, <<"get_document_text", f.name>>)
          /\ UNCHANGED <<content_map, i, batch, uploads>>
     ELSE /\ calls' = calls \o << <<"get_document_text", f.name>>,
                                  <<"create_sections", f.name>>,
                                  <<"index_content", f.name>> >>
          /\ content_map' = get_document_text(f)
          /\ i' = 0
          /\ batch' = <<>>
          /\ uploads' = <<>>
          /\ pc' = "index_loop"
          /\ UNCHANGED exitCode
  /\ UNCHANGED <<args, default_creds, search_creds, storage_creds, formrecognizer_creds,
                 containerExists, blobs, indexExists, index, lagging, staleDocs, fileIdx, rfiFile, r,
                 rounds, total0, stalePolls, backendCalls, ingested, uploaded, run>>

----------------------------------------------------------------------------
(* Lines 193-213: index_content *)
FlushDue(n) == n % BatchSize = 0

FinalFlushDue_always(b) == TRUE
FinalFlushDue(b) == Len(b) > 0

\* line 208: what the buffer holds after a flush of b of which ok = <<lo, hi>> succeeded
AfterFlush_retry(b, ok) == SubSeq(b, 1, ok[1] - 1) \o SubSeq(b, ok[2] + 1, Len(b))
AfterFlush(b, ok) == <<>>

\* search_client.upload_documents(documents=b), the backend accepting b[ok[1]..ok[2]]
Upload(b, ok) ==
  LET accepted == SubSeq(b, ok[1], ok[2]) IN
  /\ index' = UploadDocuments(index, accepted)
  /\ uploads' = Append(uploads, [documents |-> b, succeeded |-> ok[1]..ok[2]])
  /\ ingested' = [ingested EXCEPT ![args.files[fileIdx]] = @ \cup Range(accepted)]
  /\ backendCalls' = backendCalls + 1

\* the loop runs without touching the backend up to the iteration whose flush is
\* due, or to the end of the stream: the value of i after that iteration
NextStop(from) ==
  LET due == {n \in (from + 1)..Len(content_map) : FlushDue(n)}
  IN IF due = {} THEN Len(content_map)
     ELSE CHOOSE n \in due : \A m \in due : n <= m

\* lines 200-208: the iterations up to and including the next flush
IndexContentStep ==
  /\ pc = "index_loop"
  /\ i < Len(content_map)
  /\ i' = NextStop(i)
  /\ LET b == batch \o [k \in 1..(NextStop(i) - i) |-> create_sections(content_map, i + k)] IN
     IF FlushDue(NextStop(i))
     THEN \E ok \in AcceptChoices(Len(b)) :
            /\ Upload(b, ok)
            /\ batch' = AfterFlush(b, ok)
     ELSE /\ batch' = b
          /\ UNCHANGED <<index, uploads, ingested, backendCalls>>
  /\ UNCHANGED <<args, pc, exitCode, default_creds, search_creds, storage_creds,
                 formrecognizer_creds, containerExists, blobs, indexExists, lagging,
                 staleDocs, fileIdx, content_map, rfiFile, r, rounds, total0, stalePolls,
                 calls, uploaded, run>>

\* lines 210-213, and back to line 238 for the next file
IndexContentFinish ==
  /\ pc = "index_loop"
  /\ i = Len(content_map)
  /\ IF FinalFlushDue(batch)
     THEN \E ok \in AcceptChoices(Len(batch)) : Upload(batch, ok)
     ELSE UNCHANGED <<index, uploads, ingested, backendCalls>>
  /\ pc' = "loop"
  /\ fileIdx' = fileIdx + 1
  /\ UNCHANGED <<args, exitCode, default_creds, search_creds, storage_creds,
                 formrecognizer_creds, containerExists, blobs, indexExists, lagging,
                 staleDocs, content_map, i, batch, rfiFile, r, rounds, total0, stalePolls,
                 calls, uploaded, run>>

----------------------------------------------------------------------------
(* Lines 215-228: remove_from_index *)

\* lines 221-224.  A query sees either the current documents or, after a delete
\* that the index has not yet reflected, the documents of before it.
RemoveFromIndexPoll ==
  /\ pc = "rfi_poll"
  /\ \E stale \in BOOLEAN :
       /\ stale => (lagging /\ stalePolls < MaxStale)
       /\ lagging' = stale
       /\ staleDocs' = IF stale THEN staleDocs ELSE <<>>
       /\ stalePolls' = IF stale THEN stalePolls + 1 ELSE stalePolls
       /\ r' = Search(IF stale THEN staleDocs ELSE index, rfiFile)
  /\ total0' = IF total0 = -1 THEN r'.count ELSE total0
  /\ calls' = IF total0 = -1 THEN Append(calls, <<"remove_from_index", rfiFile>>) ELSE calls
  /\ backendCalls' = backendCalls + 1
  /\ IF r'.count = 0
     THEN IF args.removeall
          THEN /\ pc' = "done"
               /\ exitCode' = 0
               /\ UNCHANGED fileIdx
          ELSE /\ pc' = "loop"
               /\ fileIdx' = fileIdx + 1
               /\ UNCHANGED exitCode
     ELSE /\ pc' = "rfi_delete"
          /\ UNCHANGED <<exitCode, fileIdx>>
  /\ UNCHANGED <<args, default_creds, search_creds, storage_creds, formrecognizer_creds,
                 containerExists, blobs, indexExists, index, content_map, i, batch, rfiFile,
                 rounds, uploads, ingested, uploaded, run>>

\* lines 225-228
RemoveFromIndexDelete ==
  /\ pc = "rfi_delete"
  /\ index' = DeleteDocuments(index, r.hits)
  /\ lagging' = TRUE
  /\ staleDocs' = IF lagging THEN staleDocs ELSE index
  /\ rounds' = rounds + 1
  /\ backendCalls' = backendCalls + 1
  /\ pc' = "rfi_poll"
  /\ UNCHANGED <<args, exitCode, default_creds, search_creds, storage_creds,
                 formrecognizer_creds, containerExists, blobs, indexExists,
                 fileIdx, content_map, i, batch, rfiFile, r, total0, stalePolls, calls,
                 uploads, ingested, uploaded, run>>

----------------------------------------------------------------------------
(* Runs *)
Start(argSet) ==
  /\ args \in argSet
  /\ pc = "start"
  /\ exitCode = "running"
  /\ default_creds = Undefined
  /\ search_creds = Undefined
  /\ storage_creds = Undefined
  /\ formrecognizer_creds = Undefined
  /\ fileIdx = 0
  /\ content_map = <<>>
  /\ i = 0
  /\ batch = <<>>
  /\ rfiFile = None
  /\ r = [count |-> 0, hits |-> <<>>]
  /\ rounds = 0
  /\ total0 = -1
  /\ stalePolls = 0
  /\ calls = <<>>
  /\ backendCalls = 0
  /\ uploads = <<>>

\* the script is started again; the backends keep what the earlier runs left
NewRun(argSet) ==
  /\ pc \in {"done", "crashed", "exited"}
  /\ run < MaxRuns
  /\ run' = run + 1
  /\ args' \in argSet
  /\ pc' = "start"
  /\ exitCode' = "running"
  /\ default_creds' = Undefined
  /\ search_creds' = Undefined
  /\ storage_creds' = Undefined
  /\ formrecognizer_creds' = Undefined
  /\ fileIdx' = 0
  /\ content_map' = <<>>
  /\ i' = 0
  /\ batch' = <<>>
  /\ rfiFile' = None
  /\ r' = [count |-> 0, hits |-> <<>>]
  /\ rounds' = 0
  /\ total0' = -1
  /\ stalePolls' = 0
  /\ calls' = <<>>
  /\ backendCalls' = 0
  /\ uploads' = <<>>
  /\ lagging' = FALSE
  /\ staleDocs' = <<>>
  /\ UNCHANGED <<containerExists, blobs, indexExists, index, ingested, uploaded>>

InitBackends ==
  /\ containerExists = FALSE
  /\ blobs = {}
  /\ indexExists = FALSE
  /\ index = <<>>
  /\ lagging = FALSE
  /\ staleDocs = <<>>
  /\ ingested = [f \in {g.name : g \in AllFiles} |-> {}]
  /\ uploaded = [f \in {g.name : g \in AllFiles} |-> {}]
  /\ run = 1

Script == \/ ArgumentResolution
          \/ RemoveAllBlobs
          \/ RemoveFileBlobs
          \/ UploadBlobs
          \/ EnsureIndex
          \/ Finish
          \/ GetDocumentText
          \/ IndexContentStep
          \/ IndexContentFinish
          \/ RemoveFromIndexPoll
          \/ RemoveFromIndexDelete

Init == InitBackends /\ Start(ArgSpace)
\* later runs are made with the same keys as the first, in any mode and on any files
SameKeys(a) == /\ a.searchkey = args.searchkey
               /\ a.storagekey = args.storagekey
               /\ a.formrecognizerkey = args.formrecognizerkey
Next == Script \/ NewRun({a \in ArgSpace : SameKeys(a)})
Spec == Init /\ [][Next]_vars

\* one long export is ingested, then a removal runs against the same index
InitBulk == InitBackends /\ Start({a \in BulkArgSpace : ~a.remove /\ ~a.removeall})
NextBulk == Script \/ NewRun({a \in BulkArgSpace :
                                 (a.remove \/ a.removeall) /\ a.files = args.files})
SpecBulk == InitBulk /\ [][NextBulk]_vars

----------------------------------------------------------------------------
(* Properties *)
Terminal == {"done", "crashed", "exited"}
InRemoveLoop == pc \in {"rfi_poll", "rfi_delete"}
IngestMode == ~args.remove /\ ~args.removeall

RECURSIVE Flatten(_)
Flatten(log) == IF log = <<>> THEN <<>>
                ELSE Flatten(SubSeq(log, 1, Len(log) - 1)) \o log[Len(log)].documents

\* the first n documents of the stream that create_sections yields
Stream(n) == [k \in 1..n |-> create_sections(content_map, k)]

IndexContentReturned == IngestMode /\ pc \in {"loop", "done"} /\ fileIdx > 1

\* queries are in step with the index whenever no removal is under way
ViewInStep == ~InRemoveLoop => ~lagging

\* C1: when index_content returns for a stream of length L, it has made
\* ceil(L / 1000) upload_documents calls; every call but the last carries exactly
\* 1000 documents, the last carries L mod 1000 (1000 when L is a positive multiple
\* of 1000), no call is empty, and the calls concatenated are the stream itself.
C1_Batching ==
  IndexContentReturned =>
    LET L == Len(content_map)
        n == Len(uploads)
    IN /\ n = CeilDiv(L, BatchSize)
       /\ \A k \in 1..(n - 1) : Len(uploads[k].documents) = BatchSize
       /\ n > 0 => Len(uploads[n].documents) =
                      (IF L % BatchSize = 0 THEN BatchSize ELSE L % BatchSize)
       /\ \A k \in 1..n : Len(uploads[k].documents) > 0
       /\ Flatten(uploads) = Stream(L)

C1_Witness ==
  /\ IndexContentReturned
  /\ Len(content_map) = MaxBatches * BatchSize + 1
  /\ Len(uploads) = MaxBatches + 1
  /\ Len(uploads[Len(uploads)].documents) = 1

\* C2: remove_from_index leaves its loop only from a query whose total count is
\* zero; and when every poll saw the effect of the deletes before it (the count
\* fell from each poll to the next), the loop makes exactly
\* ceil(totalMatches / 1000) delete rounds, never more while it runs.
C2_ExitOnlyOnZero ==
  [][(InRemoveLoop /\ ~InRemoveLoop') => (pc = "rfi_poll" /\ r'.count = 0)]_vars

C2_Rounds ==
  (total0 # -1 /\ stalePolls = 0) =>
     /\ rounds <= CeilDiv(total0, Top)
     /\ (pc = "rfi_delete") => rounds < CeilDiv(total0, Top)
     /\ ~InRemoveLoop => rounds = CeilDiv(total0, Top)

C2_DeletionLoop == []C2_Rounds /\ C2_ExitOnlyOnZero

C2_Witness ==
  /\ pc = "done"
  /\ args.removeall
  /\ total0 = MaxBatches * BatchSize + 1
  /\ stalePolls = 0
  /\ rounds = MaxBatches + 1

\* C3: once remove mode has finished with a file, none of the documents that were
\* ingested from that file is still in the index.
C3_RemoveDeletesDocuments ==
  (args.remove /\ ~args.removeall /\ pc \in {"loop", "done"}) =>
     \A k \in 1..Len(args.files) :
        k < fileIdx => ingested[args.files[k]] \cap Range(index) = {}

\* C4: once remove_blobs(F) has returned in remove mode, none of the blobs that
\* upload_blobs(F) created is still in the container.
C4_RemoveDeletesBlobs ==
  (args.remove /\ ~args.removeall /\ pc \in {"rfi_poll", "rfi_delete", "loop", "done"}) =>
     \A k \in 1..Len(args.files) :
        (k < fileIdx \/ (k = fileIdx /\ InRemoveLoop)) =>
           uploaded[args.files[k]] \cap blobs = {}

\* C5: the ids derived for the records of a file contain none of "/", ":", "."
\* and records with distinct urls get distinct ids.
C5_IdsCleanAndUnique ==
  \A j, k \in DOMAIN content_map :
     /\ \A c \in Range(create_sections(content_map, j).id) : c \notin {"/", ":", "."}
     /\ content_map[j].url # content_map[k].url =>
           create_sections(content_map, j).id # create_sections(content_map, k).id

\* C6: every credential that has been built is the explicit key when its own key
\* was given and the ambient identity otherwise, whatever the other keys are.
C6_CredentialFallback ==
  pc # "start" =>
     /\ search_creds = (IF args.searchkey = None THEN Azd
                        ELSE AzureKeyCredential(args.searchkey))
     /\ storage_creds # Undefined =>
           storage_creds = (IF args.storagekey = None THEN Azd ELSE args.storagekey)
     /\ formrecognizer_creds # Undefined =>
           formrecognizer_creds = (IF args.formrecognizerkey = None THEN Azd
                                   ELSE AzureKeyCredential(args.formrecognizerkey))

\* C7: when neither --localpdfparser nor --formrecognizerservice is given, the
\* script's first step ends the run with exit code 1, no function of the
\* pipeline is called and no storage or search request is made, in every mode.
C7_FailFast ==
  (~args.localpdfparser /\ args.formrecognizerservice = None /\ pc # "start") =>
     /\ pc = "exited"
     /\ exitCode = 1
     /\ backendCalls = 0
     /\ calls = <<>>

C7_Witness ==
  /\ pc = "exited"
  /\ args.removeall
  /\ ~args.remove
  /\ args.files # <<>>
  /\ run = 2
  /\ index # <<>>

\* C8: a run with --removeall (that passed the configuration check) ends having
\* called remove_blobs(None) and then remove_from_index(None), once each, and
\* nothing else.
C8_RemoveAll ==
  (args.removeall /\ pc \in {"done", "crashed"}) =>
     calls = << <<"remove_blobs", None>>, <<"remove_from_index", None>> >>

\* C9: an upload_documents call that rejects documents does not stop the run and
\* takes nothing back out of the index; the pending buffer never holds a document
\* that was already sent, and on return every document of the stream has been
\* sent exactly once, in order, whatever was rejected.
C9_UploadStep ==
  [][(Len(uploads') = Len(uploads) + 1) =>
        /\ pc' \in {"index_loop", "loop"}
        /\ exitCode' = "running"
        /\ {d.id : d \in Range(index)} \subseteq {d.id : d \in Range(index')}]_vars

C9_NoResend ==
  /\ (IngestMode /\ pc = "index_loop") => Flatten(uploads) \o batch = Stream(i)
  /\ IndexContentReturned =>
        /\ i = Len(content_map)
        /\ Flatten(uploads) = Stream(i)

C9_PartialFailure == []C9_NoResend /\ C9_UploadStep

C9_Witness ==
  /\ IndexContentReturned
  /\ Len(uploads) = MaxBatches + 1
  /\ uploads[1].succeeded # DOMAIN uploads[1].documents
  /\ uploads[1].succeeded # {}

\* C10: whenever remove_blobs or upload_blobs has been invoked, the storage
\* credential is defined.
C10_StorageCredsDefined ==
  \A k \in DOMAIN calls :
     calls[k][1] \in {"remove_blobs", "upload_blobs"} => storage_creds # Undefined
====
